---- MODULE Spec2Model ----
(***************************************************************************)
(* Repo Guardian (.github/scripts/repo-guardian.mjs): the control loop     *)
(* that inspects the open pull requests of a project and applies its       *)
(* remediation actions, with guardian labels on the remote PR as the only  *)
(* durable state.                                                          *)
(*                                                                         *)
(* A process is started by the scheduler (withRateLimit(main)); one main   *)
(* runs at a time; the deferred label removals (setTimeout) of a process   *)
(* stay pending after its main has returned and fire when due, also while  *)
(* a later process is running.                                             *)
(*                                                                         *)
(* Time is counted in hours, and every time the state holds is measured    *)
(* from the present instant: a timer's `due` is the hours left until it    *)
(* fires, createdAt is negative, and Tick, the passing of one hour, moves  *)
(* them all by one.                                                        *)
(*                                                                         *)
(* The fields of a listed PR that the program only reads (isDraft,         *)
(* mergeable, autoMergeRequest, createdAt) are inputs: each is drawn at    *)
(* the statement of processPR that reads it and dropped after its last     *)
(* use, as are processPR's locals.                                         *)
(*                                                                         *)
(* The guardian labels are independent of one another: each block of       *)
(* processPR reads and writes one label of one PR.  A behaviour follows    *)
(* the remote state of one label of one PR, `watched`, which Init chooses  *)
(* among all of them: its listing answer is what the remote PR carried     *)
(* when getOpenPRs ran, and its timers are kept.  For every other label    *)
(* the listing's answer is an input, drawn where hasLabel reads it.        *)
(*                                                                         *)
(* Spec is the guardian as scheduled.  SpecTwice is processPR alone,       *)
(* invoked twice in succession on one PR of which a snapshot is `given`:   *)
(* the checks, merge state and age it reads are the given ones in both     *)
(* invocations, every label of the PR is followed, and `log` keeps the     *)
(* calls of both invocations.  SpecForever is the guardian started again   *)
(* and again without an end, with weak fairness on the start of a run, on  *)
(* the steps of a run, on the clock and on the timers that are due.        *)
(***************************************************************************)
EXTENDS Integers, Sequences, FiniteSets, TLC

\* ------------------------------------------------------------------ bounds
NumPRs == 2
MaxRuns == 2
MaxChecks == 1
MaxFailedRuns == 2

\* ------------------------------------------------------- program constants
STALE_DAYS == 30
MAX_RETRIES == 1
RATE_LIMIT_MIN == 10
AUTO_UPDATE_COOLDOWN == 1
RERUN_COOLDOWN == 2
HOURS_PER_DAY == 24

RERUN_ATTEMPTED == "guardian:rerun-attempted"
SECRET_VIOLATION == "guardian:secret-violation"
AUTO_UPDATED == "guardian:auto-updated"
STALE == "guardian:stale"
LABELS == {RERUN_ATTEMPTED, SECRET_VIOLATION, AUTO_UPDATED, STALE}

PRs == 1..NumPRs

\* ------------------------------------------------------------------ inputs
\* One check of `gh pr checks`: the fields processPR reads.
Check(n, s, c) == [name |-> n, status |-> s, conclusion |-> c]
CheckKinds ==
    { Check("build", "completed", "failure"),
      Check("build", "completed", "cancelled"),
      Check("build", "completed", "neutral"),
      Check("build", "completed", "skipped"),
      Check("build", "in_progress", ""),
      Check("build", "queued", ""),
      Check("gitleaks", "completed", "failure"),
      Check("gitleaks", "completed", "success") }
CheckLists == UNION { [1..k -> CheckKinds] : k \in 0..MaxChecks }

Mergeables == {"MERGEABLE", "CONFLICTING", "UNKNOWN"}
MergeStates == {"BEHIND", "DIRTY", "CLEAN", "BLOCKED"}
AgesInDays == {STALE_DAYS - 1, STALE_DAYS, STALE_DAYS + 1}
RemainingValues == {5, 9, 10, 50}
ResetOffsets == {-1, 0, 1}

\* A field of pr that processPR has not read yet, or reads no more.
Unread == "unread"
\* pr.autoMergeRequest: null, or the request that is set
NoRequest == "null"
AutoMergeRequests == {NoRequest, "requested"}
\* pr.createdAt before it is read: an hour that is not in the past
UnreadTime == 1
NoPR == [number |-> 0, isDraft |-> FALSE, labels |-> {}, mergeable |-> Unread,
         autoMergeRequest |-> Unread, createdAt |-> UnreadTime]
NoRate == [outcome |-> "none", remaining |-> 0, waitTime |-> 0, wakeIn |-> 0,
           waited |-> 0]
\* No snapshot is fixed: every field processPR reads is an input of its own.
NoSnapshot == [on |-> FALSE, isDraft |-> FALSE, checks |-> <<>>,
               view |-> "CLEAN", labels |-> {}, mergeable |-> Unread,
               autoMergeRequest |-> NoRequest, age |-> 0]
NoListing == [n |-> 0, labels |-> [p \in PRs |-> {}]]
\* The hosting calls of one step of processPR.
NoLog == [checksQuery |-> 0, view |-> 0, update |-> 0, updateOks |-> <<>>,
          runsQuery |-> 0, failedRuns |-> 0,
          reruns |-> 0, rerunOk |-> 0, autoMerge |-> 0,
          labelAdds |-> [l \in LABELS |-> 0],
          comments |-> [l \in LABELS |-> 0],
          posted |-> {},       \* watched label whose comment was posted
          deferred |-> {},
          closes |-> 0]        \* `pr close`: no function of the script issues it

VARIABLES
    run,            \* number of processes started so far
    pc,             \* position of the one running governor / main
    rate,           \* withRateLimit's locals (the rate-limit answer, the wake time)
    mainCalls,      \* invocations of main by the current process
    outcome,        \* the latest main: none | running | completed | failed
    watched,        \* the (PR, label) whose remote state the behaviour follows
    prLabels,       \* remote: guardian labels on each PR (the watched one)
    prs,            \* main's listing: how many PRs, and each one's labels
    idx,            \* for-loop position in prs
    pr,             \* processPR's argument
    checks,         \* processPR's local
    fetch,          \* how getPRChecks went for this processPR: none | ok | fallback | throw
    log,            \* hosting calls issued by the latest step of processPR (on a
                    \* given snapshot: by all the steps so far)
    timers,         \* pending setTimeout callbacks
    cooldowns,      \* history: cool-downs started and not yet over
    given,          \* the snapshot handed to processPR, when one is fixed
    invocation,     \* which invocation of processPR on the given snapshot
    issued,         \* history: the watched label's add was called since its last removal call
    ensured         \* how ensureLabels went for the main that is starting: none | created | failed

vars == <<run, pc, rate, mainCalls, outcome, watched, prLabels, prs, idx,
          pr, checks, fetch, log, timers, cooldowns, given, invocation, issued,
          ensured>>

procVars == <<run, rate, mainCalls, watched, given, invocation, ensured>>
histVars == <<cooldowns, issued>>

Init ==
    /\ run = 0
    /\ pc = "idle"
    /\ rate = NoRate
    /\ mainCalls = 0
    /\ outcome = "none"
    /\ watched \in [pr : PRs, label : LABELS]
    /\ prLabels = [p \in PRs |-> {}]
    /\ prs = NoListing
    /\ idx = 0
    /\ pr = NoPR
    /\ checks = <<>>
    /\ fetch = "none"
    /\ log = NoLog
    /\ timers = {}
    /\ cooldowns = {}
    /\ issued = FALSE
    /\ ensured = "none"
    /\ given = NoSnapshot
    /\ invocation = 0

\* ----------------------------------------------------------------- helpers
\* No slice: every failed run is taken.
Unsliced(a, b) == a

Min(a, b) == IF a < b THEN a ELSE b

\* hasLabel(pr, label): reads the labels of the listing, not the remote PR.
hasLabel(p, label) == label \in p.labels

\* setTimeout's delay: a delay below 1 ms is run as 1 ms, which is 0 on this
\* clock.
TimeoutDelay(d) == IF d < 0 THEN 0 ELSE d

\* The remote state of `label` on PR `number` is followed: it is the watched
\* one, or the PR is the one a snapshot is given of.
Tracked(number, label) ==
    given.on \/ (watched.pr = number /\ watched.label = label)

\* What the listing says of `label` on PR `number`.
Listed(number, label) ==
    IF Tracked(number, label) THEN {label \in prs.labels[number]} ELSE BOOLEAN

\* The other fields of the snapshot, where processPR reads them.
DraftAnswers == IF given.on THEN {given.isDraft} ELSE BOOLEAN
CheckAnswers == IF given.on THEN {given.checks} ELSE CheckLists
ViewAnswers == IF given.on THEN {given.view} ELSE MergeStates \cup {"error"}
AutoMergeAnswers ==
    IF given.on THEN {given.autoMergeRequest} ELSE AutoMergeRequests
MergeableAnswers == IF given.on THEN {given.mergeable} ELSE Mergeables
AgeAnswers == IF given.on THEN {given.age} ELSE AgesInDays

\* The calls a step of processPR adds its own to: none, or those issued on the
\* given snapshot so far.  The comments posted are those of the latest step.
Calls == IF given.on THEN [log EXCEPT !.posted = {}] ELSE NoLog
WithListed(p, label, has) == [p EXCEPT !.labels = IF has THEN {label} ELSE {}]

\* addLabel(prNumber, label): the call is issued and its failure swallowed.
LabelsAfterAdd(number, label, ok) ==
    IF ok /\ Tracked(number, label)
    THEN [prLabels EXCEPT ![number] = @ \cup {label}] ELSE prLabels
IssuedAfterAdd(number, label) == issued \/ Tracked(number, label)

\* How the call of addLabel, and of addComment, can go.  Each swallows its
\* failure, and the outcomes are told apart for the watched pair only.
Added(number, label) == IF Tracked(number, label) THEN BOOLEAN ELSE {TRUE}
Posted(number, label) == IF Tracked(number, label) THEN BOOLEAN ELSE {FALSE}

\* addLabel then addComment, as each remediation block calls them.
LogLabelAndComment(lg, number, label, posted) ==
    [lg EXCEPT !.labelAdds[label] = @ + 1,
               !.comments[label] = @ + 1,
               !.posted = IF posted THEN @ \cup {label} ELSE @]

\* A deferred removal that names the watched label, whichever was added.
TimersForWatched(number, label, delay) ==
    IF watched.pr = number
    THEN timers \cup {[run |-> run, pr |-> number, label |-> watched.label,
                       due |-> delay]}
    ELSE timers

\* setTimeout(() => removeLabel(pr.number, label), delay)
TimersAfter(number, label, delay) ==
    IF Tracked(number, label)
    THEN timers \cup {[run |-> run, pr |-> number, label |-> label,
                       due |-> delay]}
    ELSE timers
CooldownsAfter(number, label, delay) ==
    IF Tracked(number, label)
    THEN cooldowns \cup {[pr |-> number, label |-> label, until |-> delay]}
    ELSE cooldowns

\* ---------------------------------------------------------- rate governor
\* A governor that waits only when nothing remains.
RateLimitSpent(remaining) == remaining < 1

\* if (remaining < 10)
RateLimitLow(remaining) == remaining < RATE_LIMIT_MIN

\* const waitTime = resetTime - new Date(); setTimeout(resolve, waitTime)
WakeIn(waitTime) == TimeoutDelay(waitTime)

\* A governor that gives up when its query fails.
GivesUp == "idle"

\* catch (error) { return await fn(); }: where the governor goes when the
\* query throws.
OnQueryError == "main"

\* withRateLimit(fn), up to the call of fn: the query, and the wait if any.
WithRateLimit ==
    /\ pc = "idle"
    /\ run < MaxRuns
    /\ run' = run + 1
    /\ mainCalls' = 0
    /\ outcome' = "none"
    /\ \/ \* the query throws (gh fails, or its answer does not parse): catch
          /\ rate' = [NoRate EXCEPT !.outcome = "fail"]
          /\ pc' = OnQueryError
       \/ \E remaining \in RemainingValues, reset \in ResetOffsets :
            /\ rate' = [outcome |-> "ok", remaining |-> remaining,
                        waitTime |-> reset,
                        wakeIn |-> IF RateLimitLow(remaining)
                                   THEN WakeIn(reset) ELSE 0,
                        waited |-> 0]
            /\ pc' = IF RateLimitLow(remaining) THEN "rl_wait" ELSE "main"
    /\ fetch' = "none"
    /\ UNCHANGED <<watched, given, invocation, ensured, prLabels, prs, idx, pr,
                   checks, log, timers, histVars>>

\* The wait's timer fires.
RateLimitWake ==
    /\ pc = "rl_wait"
    /\ rate.wakeIn <= 0
    /\ pc' = "main"
    /\ UNCHANGED <<procVars, outcome, prLabels, prs, idx, pr, checks,
                   fetch, log, timers, histVars>>

\* ------------------------------------------------------------------- main
\* An exception reaches main's catch: process.exit(1), which drops the
\* process's pending timers.
ExitedTimers == {t \in timers : t.run # run}

\* A main whose catch lets the error out to withRateLimit's catch, which calls
\* its argument again.
RejectedToGovernor == "main"

\* catch (error) { ...; process.exit(1); }: main's promise never rejects, the
\* process ends there.
Exited == "idle"

\* ensureLabels(): `gh label create ... 2>/dev/null || true` for each label,
\* inside try/catch: a label that could not be created is not reported.
EnsureLabels(created) == IF created THEN "created" ELSE "failed"

\* main(), to its listing: the banner, and in main's try, ensureLabels.
MainStart ==
    /\ pc = "main"
    /\ mainCalls' = mainCalls + 1
    /\ rate' = NoRate
    /\ \E created \in BOOLEAN : ensured' = EnsureLabels(created)
    /\ pc' = "getOpenPRs"
    /\ UNCHANGED <<run, watched, given, invocation, outcome, prLabels, prs, idx,
                   pr, checks, fetch, log, timers, histVars>>

\* const prs = await getOpenPRs(), in main's try: a failure of the listing is
\* caught by main, which exits with status 1; an empty listing is main's
\* return; otherwise the loop starts.  What ensureLabels met is not consulted.
GetOpenPRs ==
    /\ pc = "getOpenPRs"
    /\ ensured' = "none"
    /\ \/ \* getOpenPRs throws
          /\ outcome' = "failed"
          /\ pc' = Exited
          /\ timers' = ExitedTimers
          /\ UNCHANGED <<prs, idx>>
       \/ \E n \in 0..NumPRs :
            /\ IF n = 0
               THEN /\ outcome' = "completed" /\ pc' = "idle"
                    /\ UNCHANGED <<prs, idx>>
               ELSE /\ outcome' = "running" /\ pc' = "loop" /\ idx' = 1
                    /\ prs' = [n |-> n, labels |-> prLabels]
            /\ UNCHANGED timers
    /\ UNCHANGED <<run, rate, mainCalls, watched, given, invocation, prLabels, pr,
                   checks, fetch, log, histVars>>

\* --------------------------------------------------------------- processPR
\* A processPR without the draft check.
SkipsNothing(p) == FALSE

\* if (pr.isDraft) return
SkipsDraft(p) == p.isDraft

\* processPR(pr), to the draft check.
ProcessPR ==
    /\ pc = "loop"
    /\ idx <= prs.n
    /\ \E d \in DraftAnswers :
         LET p == [NoPR EXCEPT !.number = idx, !.isDraft = d]
         IN  /\ pr' = p
             /\ pc' = IF SkipsDraft(p) THEN "pr_done" ELSE "getPRChecks"
    /\ checks' = <<>>
    /\ fetch' = "none"
    /\ log' = Calls
    /\ UNCHANGED <<procVars, outcome, prLabels, prs, idx, timers, histVars>>

\* const checks = await getPRChecks(pr.number): the command ends `|| echo "[]"`,
\* so a failing gh yields the empty list; an answer that does not parse throws,
\* and nothing below main's catch handles it.
GetPRChecks ==
    /\ pc = "getPRChecks"
    /\ \/ \E cs \in CheckAnswers :
            /\ checks' = cs
            /\ fetch' = "ok"
            /\ pc' = "secret"
            /\ UNCHANGED <<outcome, timers, prs, idx, pr>>
       \/ /\ ~given.on
          /\ checks' = <<>>
          /\ fetch' = "fallback"
          /\ pc' = "secret"
          /\ UNCHANGED <<outcome, timers, prs, idx, pr>>
       \/ /\ ~given.on
          /\ fetch' = "throw"
          /\ outcome' = "failed"
          /\ pc' = Exited
          /\ timers' = ExitedTimers
          /\ prs' = NoListing
          /\ pr' = NoPR
          /\ UNCHANGED <<checks, idx>>
    /\ log' = [Calls EXCEPT !.checksQuery = @ + 1]
    /\ UNCHANGED <<procVars, prLabels, histVars>>

\* name.toLowerCase().includes("secret") || ...includes("gitleaks") ||
\* name === "GitGuardian Security Checks": the names it selects.
SecretNames == {"gitleaks", "secret-scan", "GitGuardian Security Checks"}
IsSecretFailure(c) == c.name \in SecretNames /\ c.conclusion = "failure"

\* A secret block that does not look at the label.
SecretIgnoringLabel(p, cs) == Len(SelectSeq(cs, IsSecretFailure)) > 0

\* if (secretChecks.length > 0 && !(await hasLabel(pr, LABELS.SECRET_VIOLATION)))
SecretApplies(p, cs) ==
    Len(SelectSeq(cs, IsSecretFailure)) > 0 /\ ~hasLabel(p, SECRET_VIOLATION)

\* handleSecretViolation(pr, checks)
\* A helper that let its call's error out would end the run there.
Rethrown(next) == "idle"

\* catch (error) { console.error(...) } of rerunFailedJob, updatePRBranch,
\* enableAutoMerge, addLabel and addComment: the helper returns and processPR
\* goes on with its next block.
Caught(next) == next

HandleSecretViolation ==
    /\ pc = "secret"
    /\ \E has \in Listed(pr.number, SECRET_VIOLATION) :
         LET p == WithListed(pr, SECRET_VIOLATION, has)
         IN  /\ pr' = p
             /\ IF SecretApplies(p, checks)
                THEN \E okL \in Added(p.number, SECRET_VIOLATION),
                        okC \in Posted(p.number, SECRET_VIOLATION) :
                     /\ prLabels' = LabelsAfterAdd(p.number, SECRET_VIOLATION, okL)
                     /\ issued' = IssuedAfterAdd(p.number, SECRET_VIOLATION)
                     /\ log' = LogLabelAndComment(Calls, p.number, SECRET_VIOLATION, okC)
                     /\ pc' = IF okL THEN "sync" ELSE Caught("sync")
                ELSE /\ log' = Calls
                     /\ pc' = "sync"
                     /\ UNCHANGED <<prLabels, issued>>
    /\ UNCHANGED <<procVars, outcome, prs, idx, checks, fetch, timers,
                   cooldowns>>

\* A branch with conflicts is not taken for one that needs the update.
IsBehindOnly(view) == view = "BEHIND"

\* isBehindBase(prNumber): a fresh query of the merge state; an error is false.
IsBehind(view) == view \in {"BEHIND", "DIRTY"}

\* if (behind && !(await hasLabel(pr, LABELS.AUTO_UPDATED)))
SyncApplies(p, view) == IsBehind(view) /\ ~hasLabel(p, AUTO_UPDATED)

\* A branch update that reports success whatever its calls met.
ReportsUpdated(primaryOk, secondaryOk) ==
    [oks |-> IF primaryOk THEN <<TRUE>> ELSE <<FALSE, secondaryOk>>,
     updated |-> TRUE]

\* Only the update-branch merge is tried.
PrimaryOnly(primaryOk, secondaryOk) ==
    [oks |-> <<primaryOk>>, updated |-> primaryOk]

\* updatePRBranch(prNumber): `pr merge --update-branch`, and in its catch
\* `api PUT .../update-branch`; true when either call went through, false
\* when both failed.  oks: the outcomes of the calls made, in order.
UpdatePRBranch(primaryOk, secondaryOk) ==
    [oks |-> IF primaryOk THEN <<TRUE>> ELSE <<FALSE, secondaryOk>>,
     updated |-> primaryOk \/ secondaryOk]

\* The branch-sync block of processPR: isBehindBase, updatePRBranch (the
\* update-branch merge, then the update-branch API), label, comment, setTimeout.
BranchSync ==
    /\ pc = "sync"
    /\ \E view \in ViewAnswers,
          has \in Listed(pr.number, AUTO_UPDATED) :
         LET p == WithListed(pr, AUTO_UPDATED, has)
         IN  /\ pr' = p
             /\ IF SyncApplies(p, view)
                THEN \E primaryOk \in BOOLEAN, secondaryOk \in BOOLEAN :
                     LET u == UpdatePRBranch(primaryOk, secondaryOk)
                         lg == [Calls EXCEPT !.view = @ + 1,
                                             !.update = @ + Len(u.oks),
                                             !.updateOks = @ \o u.oks]
                     IN  IF u.updated
                         THEN \E okL \in Added(p.number, AUTO_UPDATED),
                                 okC \in Posted(p.number, AUTO_UPDATED) :
                              /\ prLabels' =
                                   LabelsAfterAdd(p.number, AUTO_UPDATED, okL)
                              /\ issued' = IssuedAfterAdd(p.number, AUTO_UPDATED)
                              /\ log' = [LogLabelAndComment(lg, p.number, AUTO_UPDATED, okC)
                                           EXCEPT
                                           !.deferred = @ \cup {AUTO_UPDATED}]
                              /\ timers' = TimersAfter(p.number, AUTO_UPDATED,
                                                       AUTO_UPDATE_COOLDOWN)
                              /\ cooldowns' =
                                   CooldownsAfter(p.number, AUTO_UPDATED,
                                                  AUTO_UPDATE_COOLDOWN)
                              /\ pc' = IF okL THEN "retry" ELSE Caught("retry")
                         ELSE /\ log' = lg
                              /\ pc' = Caught("retry")
                              /\ UNCHANGED <<prLabels, issued, timers, cooldowns>>
                ELSE /\ log' = [Calls EXCEPT !.view = @ + 1]
                     /\ pc' = IF view = "error" THEN Caught("retry") ELSE "retry"
                     /\ UNCHANGED <<prLabels, issued, timers, cooldowns>>
    /\ UNCHANGED <<procVars, outcome, prs, idx, checks, fetch>>

\* A cancelled check is not taken for a failed one.
IsFailure(c) == c.conclusion = "failure"

IsFailed(c) == c.conclusion = "failure" \/ c.conclusion = "cancelled"

\* A failed-check block that does not look at the label.
RetryIgnoringLabel(p, cs) == Len(SelectSeq(cs, IsFailed)) > 0

\* if (failedChecks.length > 0 && !(await hasLabel(pr, LABELS.RERUN_ATTEMPTED)))
RetryApplies(p, cs) ==
    Len(SelectSeq(cs, IsFailed)) > 0 /\ ~hasLabel(p, RERUN_ATTEMPTED)

\* The failed-check block of processPR: getFailedWorkflowRuns (an error is the
\* empty list), rerunFailedJob for failedRuns.slice(0, MAX_RETRIES), label,
\* comment, setTimeout.
\* A retry that is marked whatever became of its requests.
MarkedAnyway(rerunCount) == TRUE

\* if (rerunCount > 0)
Retried(rerunCount) == rerunCount > 0

RetryFailedChecks ==
    /\ pc = "retry"
    /\ \E has \in Listed(pr.number, RERUN_ATTEMPTED) :
         LET p == WithListed(pr, RERUN_ATTEMPTED, has)
         IN  /\ pr' = p
             /\ IF RetryApplies(p, checks)
                THEN \E k \in 0..MaxFailedRuns :
                     \E oks \in [1..Min(k, MAX_RETRIES) -> BOOLEAN] :
                       LET rerunCount == Cardinality({i \in DOMAIN oks : oks[i]})
                           lg == [Calls EXCEPT !.runsQuery = @ + 1,
                                               !.failedRuns = @ + k,
                                               !.reruns = @ + Min(k, MAX_RETRIES),
                                               !.rerunOk = @ + rerunCount]
                       IN  IF Retried(rerunCount)
                           THEN \E okL \in Added(p.number, RERUN_ATTEMPTED),
                                   okC \in Posted(p.number, RERUN_ATTEMPTED) :
                                /\ prLabels' =
                                     LabelsAfterAdd(p.number, RERUN_ATTEMPTED, okL)
                                /\ issued' =
                                     IssuedAfterAdd(p.number, RERUN_ATTEMPTED)
                                /\ log' =
                                     [LogLabelAndComment(lg, p.number, RERUN_ATTEMPTED, okC)
                                        EXCEPT !.deferred = @ \cup {RERUN_ATTEMPTED}]
                                /\ timers' = TimersAfter(p.number, RERUN_ATTEMPTED,
                                                         RERUN_COOLDOWN)
                                /\ cooldowns' =
                                     CooldownsAfter(p.number, RERUN_ATTEMPTED,
                                                    RERUN_COOLDOWN)
                                /\ pc' = IF okL /\ rerunCount = Min(k, MAX_RETRIES)
                                         THEN "automerge"
                                         ELSE Caught("automerge")
                           ELSE /\ log' = lg
                                /\ pc' = IF k = 0 THEN "automerge"
                                                  ELSE Caught("automerge")
                                /\ UNCHANGED <<prLabels, issued, timers, cooldowns>>
                ELSE /\ log' = Calls
                     /\ pc' = "automerge"
                     /\ UNCHANGED <<prLabels, issued, timers, cooldowns>>
    /\ UNCHANGED <<procVars, outcome, prs, idx, checks, fetch>>

\* A check that has not failed, whatever else it is.
CheckNotFailed(c) == ~IsFailed(c)

\* (c) => c.conclusion === "success" || c.status === "in_progress"
CheckPassing(c) == c.conclusion = "success" \/ c.status = "in_progress"

\* An auto-merge condition that does not look at mergeable.
ReadyWhateverMergeable(p, cs) ==
    /\ p.autoMergeRequest = NoRequest
    /\ \A i \in 1..Len(cs) : CheckPassing(cs[i])

\* The auto-merge condition of processPR.
AutoMergeReady(p, cs) ==
    /\ p.autoMergeRequest = NoRequest
    /\ p.mergeable = "MERGEABLE"
    /\ \A i \in 1..Len(cs) : CheckPassing(cs[i])

\* The auto-merge block of processPR: enableAutoMerge swallows its failure.
AutoMerge ==
    /\ pc = "automerge"
    /\ \E a \in AutoMergeAnswers, m \in MergeableAnswers :
         \* && short-circuits: mergeable is read when autoMergeRequest is unset
         LET p == [pr EXCEPT !.labels = {}, !.autoMergeRequest = a,
                             !.mergeable = IF a # NoRequest THEN Unread ELSE m]
         IN  /\ pr' = p
             /\ IF AutoMergeReady(p, checks)
                THEN \E ok \in BOOLEAN :
                     /\ log' = [Calls EXCEPT !.autoMerge = @ + 1]
                     /\ pc' = IF ok THEN "stale" ELSE Caught("stale")
                ELSE /\ log' = Calls
                     /\ pc' = "stale"
    /\ UNCHANGED <<procVars, outcome, prLabels, prs, idx, checks, fetch,
                   timers, histVars>>

\* A threshold that the thirtieth day already passes.
IsStaleFrom(createdAt) == (0 - createdAt) >= STALE_DAYS * HOURS_PER_DAY

\* daysSinceCreated = (now - createdAt) / day; daysSinceCreated > STALE_DAYS.
\* createdAt is in hours from now, so now - createdAt is 0 - createdAt.
IsStale(createdAt) == (0 - createdAt) > STALE_DAYS * HOURS_PER_DAY

\* if (daysSinceCreated > CONFIG.STALE_DAYS && !(await hasLabel(pr, LABELS.STALE)))
StaleApplies(p) == IsStale(p.createdAt) /\ ~hasLabel(p, STALE)

\* handleStalepr(pr), and processPR returns.
HandleStalepr ==
    /\ pc = "stale"
    /\ \E age \in AgeAnswers, has \in Listed(pr.number, STALE) :
         LET p == [WithListed(pr, STALE, has) EXCEPT
                     !.mergeable = Unread, !.autoMergeRequest = Unread,
                     !.createdAt = 0 - age * HOURS_PER_DAY]
         IN  /\ pr' = p
             /\ IF StaleApplies(p)
                THEN \E okL \in Added(p.number, STALE),
                        okC \in Posted(p.number, STALE) :
                     /\ prLabels' = LabelsAfterAdd(p.number, STALE, okL)
                     /\ issued' = IssuedAfterAdd(p.number, STALE)
                     /\ log' = LogLabelAndComment(Calls, p.number, STALE, okC)
                     /\ pc' = IF okL THEN "pr_done" ELSE Caught("pr_done")
                ELSE /\ log' = Calls
                     /\ pc' = "pr_done"
                     /\ UNCHANGED <<prLabels, issued>>
    /\ checks' = <<>>
    /\ UNCHANGED <<procVars, outcome, prs, idx, fetch, timers, cooldowns>>

\* for (const pr of prs): the next iteration, or the end of the loop, where
\* main returns.
\* An iteration that passes over a listed pull request.
SkipsOne(i) == i + 2

\* An iteration that stays on the pull request it has just processed.
SameAgain(i) == i

\* for (const pr of prs): the entry after entry i of the listing.
NextOf(i) == i + 1

\* A loop that asks for the quota again before each further pull request.
NextPRAfterQuery ==
    /\ pc = "pr_done"
    /\ pr' = NoPR
    /\ checks' = <<>>
    /\ fetch' = "none"
    /\ log' = NoLog
    /\ IF idx < prs.n
       THEN /\ idx' = idx + 1
            /\ pc' = "loop"
            /\ prs' = [prs EXCEPT !.labels[idx] = {}]
            /\ \E remaining \in RemainingValues :
                 rate' = [NoRate EXCEPT !.outcome = "ok", !.remaining = remaining]
            /\ UNCHANGED outcome
       ELSE /\ idx' = 0
            /\ pc' = "idle"
            /\ prs' = NoListing
            /\ outcome' = "completed"
            /\ UNCHANGED rate
    /\ UNCHANGED <<run, mainCalls, watched, given, invocation, ensured, prLabels,
                   timers, histVars>>

NextPR ==
    /\ pc = "pr_done"
    /\ pr' = NoPR
    /\ checks' = <<>>
    /\ fetch' = "none"
    /\ log' = NoLog
    /\ IF idx < prs.n
       THEN /\ idx' = NextOf(idx)
            /\ pc' = "loop"
            /\ prs' = [prs EXCEPT !.labels[idx] = {}]
            /\ UNCHANGED outcome
       ELSE /\ idx' = 0
            /\ pc' = "idle"
            /\ prs' = NoListing
            /\ outcome' = "completed"
    /\ UNCHANGED <<procVars, prLabels, timers, histVars>>

\* ------------------------------------------------------- deferred removals
\* () => removeLabel(pr.number, label), when its delay has run; removeLabel
\* swallows a failure of the call.
TimerFire ==
    \E t \in timers :
      /\ t.due <= 0
      /\ timers' = timers \ {t}
      /\ \E ok \in BOOLEAN :
           prLabels' = IF ok THEN [prLabels EXCEPT ![t.pr] = @ \ {t.label}]
                       ELSE prLabels
      /\ issued' = FALSE
      /\ UNCHANGED <<procVars, pc, outcome, prs, idx, pr, checks, fetch,
                     log, cooldowns>>

\* One hour passes.  A timer fires when it is due, and a run's calls take less
\* than the clock's resolution, so the clock moves between runs and during the
\* governor's wait.
Tick ==
    /\ pc \in {"idle", "rl_wait"}
    /\ \A t \in timers : t.due > 0
    /\ pc = "rl_wait" => rate.wakeIn > 0
    /\ timers' = {[t EXCEPT !.due = @ - 1] : t \in timers}
    /\ cooldowns' = {[c EXCEPT !.until = @ - 1] :
                          c \in {d \in cooldowns : d.until > 1}}
    /\ rate' = IF pc = "rl_wait"
               THEN [rate EXCEPT !.wakeIn = @ - 1, !.waited = @ + 1] ELSE rate
    /\ UNCHANGED <<run, mainCalls, watched, given, invocation, ensured, pc,
                   outcome, prLabels, prs, idx, pr, checks, fetch, log, issued>>

Next ==
    \/ WithRateLimit
    \/ RateLimitWake
    \/ MainStart
    \/ GetOpenPRs
    \/ ProcessPR
    \/ GetPRChecks
    \/ HandleSecretViolation
    \/ BranchSync
    \/ RetryFailedChecks
    \/ AutoMerge
    \/ HandleStalepr
    \/ NextPR
    \/ TimerFire
    \/ Tick

Spec == Init /\ [][Next]_vars

\* ------------------------------------------- processPR, twice on a snapshot
\* The snapshots of a non-draft PR: what the listing and the queries of
\* processPR say of it.
GivenSnapshots ==
    [on : {TRUE}, isDraft : {FALSE}, checks : CheckLists,
     view : {"BEHIND", "DIRTY", "CLEAN", "error"}, labels : SUBSET LABELS,
     mergeable : {"MERGEABLE", "CONFLICTING"}, autoMergeRequest : {NoRequest},
     age : {STALE_DAYS, STALE_DAYS + 1}]

\* processPR(pr) is about to be invoked on the one PR of a listing that says
\* of it what the snapshot says; the PR carries the labels listed.
InitTwice ==
    /\ run = 1
    /\ pc = "loop"
    /\ rate = NoRate
    /\ mainCalls = 1
    /\ outcome = "running"
    /\ watched = [pr |-> 1, label |-> STALE]
    /\ given \in GivenSnapshots
    /\ invocation = 1
    /\ prLabels = [p \in PRs |-> IF p = 1 THEN given.labels ELSE {}]
    /\ prs = [n |-> 1, labels |-> prLabels]
    /\ idx = 1
    /\ pr = NoPR
    /\ checks = <<>>
    /\ fetch = "none"
    /\ log = NoLog
    /\ timers = {}
    /\ cooldowns = {}
    /\ issued = FALSE
    /\ ensured = "none"

\* processPR(pr) has returned and is invoked again at once, on the PR as it is
\* listed now: the labels it carries, and the given checks, merge state and
\* age.
InvokeAgain ==
    /\ pc = "pr_done"
    /\ given.on
    /\ invocation = 1
    /\ invocation' = 2
    /\ pc' = "loop"
    /\ pr' = NoPR
    /\ checks' = <<>>
    /\ fetch' = "none"
    /\ prs' = [prs EXCEPT !.labels = prLabels]
    /\ UNCHANGED <<run, rate, mainCalls, watched, given, ensured, outcome,
                   prLabels, idx, log, timers, histVars>>

NextTwice ==
    \/ ProcessPR
    \/ GetPRChecks
    \/ HandleSecretViolation
    \/ BranchSync
    \/ RetryFailedChecks
    \/ AutoMerge
    \/ HandleStalepr
    \/ InvokeAgain

SpecTwice == InitTwice /\ [][NextTwice]_vars

\* ------------------------------------------------- runs without an end
\* The schedule starts the script again and again.  A process is known by its
\* number only to its pending timers, so once no timer is pending the numbers
\* are used again.
Reschedule ==
    /\ pc = "idle"
    /\ run = MaxRuns
    /\ timers = {}
    /\ run' = 0
    /\ UNCHANGED <<pc, rate, mainCalls, outcome, watched, prLabels, prs, idx, pr,
                   checks, fetch, log, timers, cooldowns, given, invocation,
                   issued, ensured>>

\* The steps of a started process: every awaited call returns.
RunStep ==
    \/ RateLimitWake
    \/ MainStart
    \/ GetOpenPRs
    \/ ProcessPR
    \/ GetPRChecks
    \/ HandleSecretViolation
    \/ BranchSync
    \/ RetryFailedChecks
    \/ AutoMerge
    \/ HandleStalepr
    \/ NextPR

NextForever == Next \/ Reschedule

\* What a step of a process, of the schedule, of the clock or of a timer
\* changes: its position, the process number, the clock's readings.
stepVars == <<run, pc, rate, timers, cooldowns>>

\* The script keeps being started, a started process runs on, time passes and
\* a timer that is due fires.
SpecForever ==
    /\ Init
    /\ [][NextForever]_vars
    /\ WF_stepVars(WithRateLimit)
    /\ WF_stepVars(Reschedule)
    /\ WF_stepVars(RunStep)
    /\ WF_stepVars(Tick)
    /\ WF_stepVars(TimerFire)

\* ----------------------------------------------------------------- claims
\* The timers the current process has set for PR `number`.
TimersSetFor(number) == {t \in timers : t.run = run /\ t.pr = number}

\* C1: a draft PR gets no hosting call in the run (no check fetch, rerun,
\* branch update, auto-merge, label add, comment) and no deferred label
\* removal is scheduled for it: processPR is at its return with nothing issued.
C1_DraftUntouched ==
    pr.isDraft =>
        /\ pc = "pr_done"
        /\ log = NoLog
        /\ fetch = "none"
        /\ checks = <<>>
        /\ TimersSetFor(pr.number) = {}
C1_Witness == pc = "pr_done" /\ pr.isDraft /\ idx = NumPRs

\* C2: when the labels listed for a PR include rerun-attempted, the failed-check
\* block issues no rerun request (and no query of the failed runs) for it,
\* whatever its failed or cancelled checks; a rerun request is issued only in a
\* run whose listing shows the PR without the label.
C2_NoRerunWhileLabelled ==
    pc = "automerge" =>
        /\ hasLabel(pr, RERUN_ATTEMPTED) => log.reruns = 0 /\ log.runsQuery = 0
        /\ log.reruns > 0 => RERUN_ATTEMPTED \notin prs.labels[pr.number]
C2_Witness ==
    /\ pc = "automerge"
    /\ hasLabel(pr, RERUN_ATTEMPTED)
    /\ Tracked(pr.number, RERUN_ATTEMPTED)
    /\ Len(SelectSeq(checks, IsFailed)) > 0
    /\ log.reruns = 0

\* C4: processPR invoked twice in succession on an unchanged snapshot (the
\* second invocation is given the labels, checks, merge state and age the
\* first was given) issues no add-label call and no comment twice: the second
\* invocation repeats no addLabel and no addComment of the first.
C4_NoDuplicateOnReplay ==
    (invocation = 2 /\ prs.labels[idx] = given.labels) =>
        \A l \in LABELS : log.labelAdds[l] <= 1 /\ log.comments[l] <= 1

\* A step of processPR has just run (every one of them moves pc), so that log'
\* holds the calls of this step.
StepTaken == pc' # pc

\* C3: once a rerun request has succeeded for a PR, no further rerun request
\* is issued for it until the 2-hour cool-down is over, whatever became of the
\* label-add and comment calls that followed the rerun.
C3_RetryOncePerEpisode ==
    [][(StepTaken /\ pc = "retry" /\ log'.reruns > 0) =>
           ~\E c \in cooldowns :
               c.pr = pr.number /\ c.label = RERUN_ATTEMPTED /\ c.until > 0]_vars

C6_EnabledUnlessFailed ==
    pc = "stale" =>
        (log.autoMerge = 1 <=>
            /\ pr.autoMergeRequest = NoRequest
            /\ pr.mergeable = "MERGEABLE"
            /\ \A i \in 1..Len(checks) :
                   checks[i].conclusion \notin {"failure", "cancelled", "neutral"})

\* C6, amended: auto-merge is enabled iff it is not requested yet, mergeable is
\* MERGEABLE, and every check has conclusion success or status in_progress: a
\* queued, skipped or neutral check prevents it as a failed one does.
C6_EnabledWhenAllPassing ==
    pc = "stale" =>
        (log.autoMerge = 1 <=>
            /\ pr.autoMergeRequest = NoRequest
            /\ pr.mergeable = "MERGEABLE"
            /\ \A i \in 1..Len(checks) :
                   \/ checks[i].conclusion = "success"
                   \/ checks[i].status = "in_progress")
C6_Witness ==
    /\ pc = "stale"
    /\ pr.autoMergeRequest = NoRequest
    /\ pr.mergeable = "MERGEABLE"
    /\ checks = <<Check("build", "queued", "")>>
    /\ log.autoMerge = 0

\* C7: a non-draft PR older than 30 days that does not carry the stale label
\* gets one add of the stale label and exactly one comment in the run (and
\* nothing else from the staleness block); one of 30 days or less, or one
\* that carries stale, gets neither.
C7_StaleMarking ==
    (pc = "pr_done" /\ ~pr.isDraft) =>
        IF (0 - pr.createdAt) > STALE_DAYS * HOURS_PER_DAY /\ STALE \notin pr.labels
        THEN /\ log.labelAdds[STALE] = 1
             /\ log.comments[STALE] = 1
        ELSE log = NoLog
C7_Witness ==
    /\ pc = "pr_done"
    /\ ~pr.isDraft
    /\ pr.createdAt = 0 - (STALE_DAYS + 1) * HOURS_PER_DAY
    /\ log.labelAdds[STALE] = 1
    /\ log.comments[STALE] = 1
    /\ STALE \in prLabels[pr.number]

\* C8: with remaining < 10 the guarded run starts only once a wait of
\* max(0, resetAt - now) has passed; with remaining >= 10 it starts at once.
C8_GovernorThreshold ==
    /\ pc = "rl_wait" =>
           rate.remaining < RATE_LIMIT_MIN /\ mainCalls = 0 /\ outcome = "none"
    /\ (pc = "main" /\ rate.outcome = "ok") =>
           IF rate.remaining < RATE_LIMIT_MIN
           THEN rate.waited = (IF rate.waitTime > 0 THEN rate.waitTime ELSE 0)
           ELSE rate.waited = 0
C8_Witness ==
    /\ pc = "main"
    /\ rate.outcome = "ok"
    /\ rate.remaining = RATE_LIMIT_MIN - 1
    /\ rate.waitTime = 1
    /\ rate.waited = 1

\* C9: when the rate-limit query fails, the guarded run is invoked all the
\* same, with no wait: the governor is at the call of main, which can proceed.
C9_GovernorFailsOpen ==
    rate.outcome = "fail" =>
        pc = "main" /\ rate.waited = 0 /\ mainCalls = 0 /\ ENABLED MainStart
C9_Witness == rate.outcome = "fail" /\ pc = "main" /\ run = MaxRuns

\* The latest step of processPR issued no remediation call.
NoRemediation ==
    /\ log.update = 0
    /\ log.reruns = 0
    /\ log.autoMerge = 0
    /\ \A l \in LABELS : log.labelAdds[l] = 0 /\ log.comments[l] = 0

\* C10: when the fetch of a PR's checks fails, the run is not aborted, that PR
\* gets no remediation in the run, and the PRs after it are processed.
C10_FetchFaultIsolated ==
    /\ fetch = "throw" => outcome # "failed"
    /\ fetch = "fallback" => NoRemediation
\* C11: a remediation call that fails (a rerun request, a branch update, the
\* merge-state query, enabling auto-merge, a label add, a comment) stops
\* nothing: each block of processPR is followed by the next one, the last block
\* by the next listed pull request, and the run is never marked failed there.
C11_FailureIsolated ==
    [][StepTaken =>
         /\ pc = "secret" => pc' = "sync" /\ outcome' = "running"
         /\ pc = "sync" => pc' = "retry" /\ outcome' = "running"
         /\ pc = "retry" => pc' = "automerge" /\ outcome' = "running"
         /\ pc = "automerge" => pc' = "stale" /\ outcome' = "running"
         /\ pc = "stale" => pc' = "pr_done" /\ outcome' = "running"
         /\ (pc = "pr_done" /\ idx < prs.n) =>
              pc' = "loop" /\ idx' = idx + 1 /\ outcome' = "running"]_vars

\* A rerun request failed for a pull request that is not the last listed one,
\* and the auto-merge decision is the next step.
C11_Witness ==
    /\ pc = "automerge"
    /\ log.reruns > log.rerunOk
    /\ idx < prs.n
    /\ ENABLED AutoMerge

\* C12: the run ends with a non-zero exit status only when listing the open
\* pull requests failed: a run that ended failed fetched no pull request's
\* checks before (nothing that happens while one pull request is processed
\* ends the run).
C12_FailsOnlyOnEnumeration == outcome = "failed" => fetch = "none"

C14_OneAlert ==
    [][(/\ StepTaken
        /\ pc = "secret"
        /\ watched.label = SECRET_VIOLATION
        /\ pr.number = watched.pr
        /\ log'.comments[SECRET_VIOLATION] > 0) => ~issued]_vars

\* The checks of the pull request in hand that failed or were cancelled.
FailedChecks ==
    {i \in DOMAIN checks : checks[i].conclusion \in {"failure", "cancelled"}}

\* C15: with k >= 1 failed or cancelled checks and no rerun-attempted label
\* listed, the retry block issues exactly min(k, MAX_RETRIES) rerun requests
\* and adds rerun-attempted; it never issues more than MAX_RETRIES.
C15_RetrySlice ==
    pc = "automerge" =>
      /\ log.reruns <= MAX_RETRIES
      /\ (FailedChecks # {} /\ RERUN_ATTEMPTED \notin pr.labels) =>
           /\ log.reruns = (IF Cardinality(FailedChecks) < MAX_RETRIES
                            THEN Cardinality(FailedChecks) ELSE MAX_RETRIES)
           /\ log.labelAdds[RERUN_ATTEMPTED] = 1

\* C15, amended: with a failed or cancelled check and no rerun-attempted label
\* listed, the retry block queries the failed check runs of the head commit
\* once and issues min(n, MAX_RETRIES) rerun requests, n being the number of
\* runs the query returned (0 when it failed); the label is added, and one
\* comment posted, exactly when a request succeeded.  Otherwise it issues no
\* query and no request.  Never more than MAX_RETRIES requests.
C15_RetrySliceOfRuns ==
    pc = "automerge" =>
      /\ log.reruns <= MAX_RETRIES
      /\ IF FailedChecks # {} /\ RERUN_ATTEMPTED \notin pr.labels
         THEN /\ log.runsQuery = 1
              /\ log.reruns = (IF log.failedRuns < MAX_RETRIES
                               THEN log.failedRuns ELSE MAX_RETRIES)
              /\ log.rerunOk <= log.reruns
              /\ log.labelAdds[RERUN_ATTEMPTED] = (IF log.rerunOk > 0 THEN 1 ELSE 0)
              /\ log.comments[RERUN_ATTEMPTED] = log.labelAdds[RERUN_ATTEMPTED]
         ELSE /\ log.runsQuery = 0
              /\ log.reruns = 0
              /\ log.labelAdds[RERUN_ATTEMPTED] = 0

\* Two failed runs were returned, one rerun was requested and went through.
C15_Witness ==
    /\ pc = "automerge"
    /\ FailedChecks # {}
    /\ RERUN_ATTEMPTED \notin pr.labels
    /\ log.failedRuns = 2
    /\ log.reruns = 1
    /\ log.rerunOk = 1
    /\ log.labelAdds[RERUN_ATTEMPTED] = 1

\* C16: the branch update tries its primary strategy first, calls the
\* secondary exactly when the primary failed, reports success exactly when one
\* of the two succeeded (the label, comment and deferred removal follow a
\* reported success only), and never raises: processPR goes on, the run is
\* not marked failed.
C16_UpdateFallback ==
    pc = "retry" =>
      /\ outcome = "running"
      /\ log.update = Len(log.updateOks)
      /\ Len(log.updateOks) <= 2
      /\ Len(log.updateOks) = 2 <=>
           (Len(log.updateOks) >= 1 /\ ~log.updateOks[1])
      /\ log.labelAdds[AUTO_UPDATED] = 1 <=>
           (\E i \in DOMAIN log.updateOks : log.updateOks[i])
      /\ log.labelAdds[AUTO_UPDATED] = 0 <=>
           (\A i \in DOMAIN log.updateOks : ~log.updateOks[i])

\* The primary strategy failed and the secondary went through.
C16_Witness ==
    /\ pc = "retry"
    /\ log.updateOks = <<FALSE, TRUE>>
    /\ log.labelAdds[AUTO_UPDATED] = 1
    /\ AUTO_UPDATED \in log.deferred

\* C17: within a run the listed pull requests are processed one at a time, in
\* the order of the listing: processPR is entered for entry idx only when no
\* pull request is in hand, every call of a step is for the pull request in
\* hand, and the loop moves to entry idx + 1 only when processPR has returned
\* for entry idx.
C17_OneAtATime ==
    [][/\ pr'.number \in {0, idx'}
       /\ pr'.number # pr.number =>
            \/ pr' = NoPR
            \/ pc = "loop" /\ pr = NoPR /\ pr'.number = idx
       /\ idx' # idx =>
            \/ pc = "pr_done" /\ pr' = NoPR /\ idx' = idx + 1 /\ idx' <= prs.n
            \/ pc = "pr_done" /\ idx = prs.n /\ idx' = 0
            \/ pc = "getOpenPRs" /\ idx' = 1]_vars

\* The second listed pull request is in hand and a call was issued for it.
C17_Witness ==
    /\ idx = 2
    /\ pr.number = 2
    /\ pc = "retry"
    /\ log.view = 1

\* C18: a run whose guardian labels could not be created ends there, failed:
\* it lists and processes no pull request.
C18_LabelFailureFatal ==
    [][(StepTaken /\ pc = "getOpenPRs" /\ ensured = "failed") =>
          (pc' = "idle" /\ outcome' = "failed")]_vars

\* The watched retry or update marker is on its pull request and no removal
\* of it is pending: the process that deferred the removal has exited, or the
\* removal call failed.
MarkerStuck ==
    /\ watched.label \in {RERUN_ATTEMPTED, AUTO_UPDATED}
    /\ watched.label \in prLabels[watched.pr]
    /\ \A t \in timers : ~(t.pr = watched.pr /\ t.label = watched.label)

\* C19: a marker left on a pull request only delays: with the script started
\* again and again, the label is eventually off the pull request, so that the
\* action it gates can be taken again.
C19_StuckMarkerClears ==
    MarkerStuck ~> (watched.label \notin prLabels[watched.pr])

\* C20: a pull request that the guardian has marked stale is eventually closed
\* by the guardian (the stale comment announces it for 7 days later).
C20_StaleClosed ==
    (watched.label = STALE /\ STALE \in prLabels[watched.pr]) ~> (log.closes > 0)

\* The checks in hand that stop auto-merge though they have not failed:
\* queued, skipped or neutral ones.
HeldChecks ==
    {i \in DOMAIN checks :
        \/ checks[i].status = "queued"
        \/ checks[i].conclusion \in {"skipped", "neutral"}}

\* C21: for a pull request whose checks were fetched, enableAutoMerge is
\* called iff no auto-merge request is listed, mergeable is MERGEABLE and
\* every check has conclusion success or status in_progress.  So a MERGEABLE
\* pull request with no check at all gets the call, and one queued, skipped
\* or neutral check prevents it.
C21_AutoMergeIff ==
    (pc = "stale" /\ fetch \in {"ok", "fallback"}) =>
      /\ log.autoMerge \in {0, 1}
      /\ log.autoMerge = 1 <=>
           /\ pr.autoMergeRequest = NoRequest
           /\ pr.mergeable = "MERGEABLE"
           /\ \A i \in DOMAIN checks :
                  checks[i].conclusion = "success" \/ checks[i].status = "in_progress"
      /\ (checks = <<>> /\ pr.autoMergeRequest = NoRequest
            /\ pr.mergeable = "MERGEABLE") => log.autoMerge = 1
      /\ HeldChecks # {} => log.autoMerge = 0

\* No check at all, mergeable, no request: the call is made.
C21_Witness ==
    /\ pc = "stale"
    /\ fetch = "ok"
    /\ checks = <<>>
    /\ pr.mergeable = "MERGEABLE"
    /\ log.autoMerge = 1

\* C22: when both strategies of the branch update failed, the block adds no
\* auto-updated label, posts no comment and defers no removal, so the pull
\* request carries no label that would stop the next run's attempt; the
\* label, the comment and the deferred removal follow a successful update only.
C22_FailedUpdateLeavesNoMark ==
    pc = "retry" =>
      /\ (log.update >= 1 /\ \A i \in DOMAIN log.updateOks : ~log.updateOks[i]) =>
           /\ log.labelAdds[AUTO_UPDATED] = 0
           /\ log.comments[AUTO_UPDATED] = 0
           /\ AUTO_UPDATED \notin log.deferred
           /\ Tracked(pr.number, AUTO_UPDATED) =>
                /\ AUTO_UPDATED \notin prLabels[pr.number]
                /\ \A t \in TimersSetFor(pr.number) : t.label # AUTO_UPDATED
      /\ (\/ log.labelAdds[AUTO_UPDATED] > 0
          \/ log.comments[AUTO_UPDATED] > 0
          \/ AUTO_UPDATED \in log.deferred) =>
           \E i \in DOMAIN log.updateOks : log.updateOks[i]

\* Both strategies failed for the watched pull request.
C22_Witness ==
    /\ pc = "retry"
    /\ watched = [pr |-> pr.number, label |-> AUTO_UPDATED]
    /\ log.updateOks = <<FALSE, FALSE>>
    /\ log.labelAdds[AUTO_UPDATED] = 0
    /\ AUTO_UPDATED \notin prLabels[pr.number]

\* C23: in the retry block the add of rerun-attempted, the auto-retry comment
\* and the 2-hour deferred removal are issued iff at least one rerun request
\* of the block succeeded; when every request failed, or the query found no
\* run to rerun, none of the three is issued and the pull request carries no
\* label that would stop the next run's retry.
C23_MarkedIffRerun ==
    pc = "automerge" =>
      /\ log.labelAdds[RERUN_ATTEMPTED] = (IF log.rerunOk > 0 THEN 1 ELSE 0)
      /\ log.comments[RERUN_ATTEMPTED] = (IF log.rerunOk > 0 THEN 1 ELSE 0)
      /\ RERUN_ATTEMPTED \in log.deferred <=> log.rerunOk > 0
      /\ Tracked(pr.number, RERUN_ATTEMPTED) =>
           /\ (\E t \in TimersSetFor(pr.number) :
                  t.label = RERUN_ATTEMPTED /\ t.due = RERUN_COOLDOWN)
                <=> log.rerunOk > 0
           /\ (log.runsQuery = 1 /\ log.rerunOk = 0) =>
                RERUN_ATTEMPTED \notin prLabels[pr.number]

\* The one rerun request of the block failed, for the watched pull request.
C23_Witness ==
    /\ pc = "automerge"
    /\ watched = [pr |-> pr.number, label |-> RERUN_ATTEMPTED]
    /\ log.reruns = 1
    /\ log.rerunOk = 0
    /\ log.labelAdds[RERUN_ATTEMPTED] = 0
    /\ RERUN_ATTEMPTED \notin prLabels[pr.number]

\* C24: a rerun request is issued only for a pull request whose collected
\* checks include a failed or cancelled one, and whenever they do and no
\* rerun-attempted label is listed, at least one rerun request is issued.
C24_RerunsFollowChecks ==
    pc = "automerge" =>
      /\ log.reruns > 0 => FailedChecks # {}
      /\ (FailedChecks # {} /\ RERUN_ATTEMPTED \notin pr.labels) =>
           log.reruns >= 1

\* C24, amended: a rerun request is issued only for a pull request whose
\* collected checks include a failed or cancelled one and which lists no
\* rerun-attempted label, and only for a run that the query of the head
\* commit's failed check runs returned; in that case the query is made, and
\* at least one request is issued exactly when it returned a run.
C24_RerunsFollowQuery ==
    pc = "automerge" =>
      /\ log.reruns > 0 =>
           (FailedChecks # {} /\ RERUN_ATTEMPTED \notin pr.labels)
      /\ log.reruns <= log.failedRuns
      /\ (FailedChecks # {} /\ RERUN_ATTEMPTED \notin pr.labels) =>
           /\ log.runsQuery = 1
           /\ log.reruns >= 1 <=> log.failedRuns >= 1

\* A cancelled check, and the query returned one run, which is rerun.
C24_Witness ==
    /\ pc = "automerge"
    /\ checks = <<Check("build", "completed", "cancelled")>>
    /\ RERUN_ATTEMPTED \notin pr.labels
    /\ log.failedRuns = 1
    /\ log.reruns = 1

\* The labels that mark a finding and are not meant to expire.
KeptLabels == {SECRET_VIOLATION, STALE}

\* C25: the guardian removes neither secret-violation nor stale: every
\* deferred removal names auto-updated or rerun-attempted, and no step of a
\* run or of a timer takes a secret-violation or stale label off a pull
\* request that carries it.
C25_KeptLabelsStay ==
    [][/\ \A t \in timers' : t.label \in {AUTO_UPDATED, RERUN_ATTEMPTED}
       /\ log'.deferred \subseteq {AUTO_UPDATED, RERUN_ATTEMPTED}
       /\ \A p \in PRs : \A l \in KeptLabels :
            l \in prLabels[p] => l \in prLabels'[p]]_vars

\* The secret-violation label is on the watched pull request when the last
\* run has ended.
C25_Witness ==
    /\ watched.label = SECRET_VIOLATION
    /\ SECRET_VIOLATION \in prLabels[watched.pr]
    /\ run = MaxRuns
    /\ pc = "idle"
    /\ outcome = "completed"

\* C26: the rate-limit query and its wait belong to the start of a process,
\* before main: while the process waits or is about to call main nothing is
\* listed and main has not been called, and from the listing on, through
\* every pull request, the governor holds no answer and waits for nothing.
C26_GovernorBeforeMain ==
    /\ pc = "rl_wait" =>
         rate.outcome = "ok" /\ mainCalls = 0 /\ prs = NoListing
    /\ pc = "main" =>
         rate.outcome \in {"ok", "fail"} /\ mainCalls = 0 /\ prs = NoListing
    /\ pc \notin {"idle", "rl_wait", "main"} => rate = NoRate /\ mainCalls = 1

\* The second listed pull request is in hand, and the governor holds nothing.
C26_Witness ==
    /\ pc = "sync"
    /\ idx = 2
    /\ rate = NoRate
    /\ mainCalls = 1

\* C27: every started process comes to the end of its main, by the return of
\* main or by its exit with status 1; every deferred removal is gone in the
\* end, fired or dropped by the exit; and within a run the loop only moves
\* forward, so that no listed pull request is processed twice.
C27_RunsTerminate ==
    /\ (pc # "idle") ~> (pc = "idle" /\ outcome \in {"completed", "failed"})
    /\ (timers # {}) ~> (timers = {})
    /\ [][(pc = "pr_done" /\ pc' = "loop") => idx' > idx]_vars

\* A run that set a timer has ended and the timer is pending.
C27_Witness ==
    /\ pc = "idle"
    /\ outcome = "completed"
    /\ \E t \in timers : t.run = run /\ t.due > 0

\* C28: a deferred removal takes a label off a pull request only when the
\* cool-down of the run that added the label is over: while a cool-down begun
\* by a later run still has time left, an earlier run's deferred removal
\* leaves that run's label on the pull request.
C28_RemovalOfOwnLabel ==
    [][\A p \in PRs : \A l \in prLabels[p] \ prLabels'[p] :
           ~\E c \in cooldowns : c.pr = p /\ c.label = l /\ c.until > 0]_vars

\* C29: label and comment go together: when a step of processPR calls
\* addLabel and addComment for one of the guardian's actions on a pull
\* request, the label is on the pull request after the step if and only if
\* the comment was posted.
C29_LabelIffComment ==
    [][\A l \in LABELS :
         (/\ StepTaken
          /\ pc \in {"secret", "sync", "retry", "stale"}
          /\ Tracked(pr'.number, l)
          /\ log'.labelAdds[l] > 0)
         => (l \in prLabels'[pr'.number] <=> l \in log'.posted)]_vars

\* C30: in every process main is invoked exactly once, whatever the
\* rate-limit query answered and however main ended: never before the
\* governor is through, once from main's start on, and still once when the
\* process has ended, by main's return or by its failure.
C30_MainInvokedOnce ==
    /\ mainCalls <= 1
    /\ pc \in {"rl_wait", "main"} => mainCalls = 0
    /\ (run > 0 /\ pc \notin {"rl_wait", "main"}) => mainCalls = 1
    /\ outcome \in {"completed", "failed"} => pc = "idle" /\ mainCalls = 1

\* A main that failed after its listing, in its second pull request's checks:
\* the process is over and main was called once.
C30_Witness ==
    /\ pc = "idle"
    /\ outcome = "failed"
    /\ fetch = "throw"
    /\ idx = 2
    /\ mainCalls = 1

====
